---------------------------- MODULE Spec2Model ----------------------------
(***************************************************************************)
(* The container assistant (src/src/App.tsx, src/src/services/             *)
(* geminiService.ts, src/types.ts) as a state machine.                     *)
(*                                                                         *)
(* State: the React state of App and CameraModal, the clock read by        *)
(* Date.now(), and the two handler invocations that can be suspended at    *)
(* an await (handleSendMessage, handleCameraScan), each with the values    *)
(* its closure captured when it was called and the reply of its LLM call   *)
(* once that has arrived.  One action per handler, or per half of an       *)
(* async handler (up to its await, and from its await to its end).         *)
(*                                                                         *)
(* Optional values (undefined / null / absent JSON fields) are sequences   *)
(* of length at most one: None is absent, Some(v) is present.              *)
(* Speech output (speak, cancel, isTtsEnabled), the scroll effect and the  *)
(* camera modal's error text and video stream are external collaborators   *)
(* and are not part of the state.  React re-renders after every handler,   *)
(* so a handler's closure holds the state as of its call.                  *)
(***************************************************************************)
EXTENDS Integers, Sequences, FiniteSets, TLC

VARIABLES
    containers,           \* App.tsx:11   Container[]
    messages,             \* App.tsx:15   Message[] (the transcript)
    userInput,            \* App.tsx:16   text of the input field
    isProcessing,         \* App.tsx:17
    isCameraOpen,         \* App.tsx:18
    pendingScannedItems,  \* App.tsx:19   None or Some({containerId, items}), see ResumeCameraScan
    selectedContainerId,  \* App.tsx:318  CameraModal state; None while unmounted
    now,                  \* the value Date.now() returns
    sendCall,             \* the suspended handleSendMessage invocation, if any
    scanCall,             \* the suspended handleCameraScan invocation, if any
    lastEvent,            \* "handleSendMessage" when the last step was a call of it, else "other"
    turns                 \* number of turns started (bounds the exploration)

vars == <<containers, messages, userInput, isProcessing, isCameraOpen,
          pendingScannedItems, selectedContainerId, now, sendCall, scanCall,
          lastEvent, turns>>

-----------------------------------------------------------------------------
(* Bounds of the exploration. *)

\* Turns (accepted sends and started scans) explored by Spec.
MaxTurns == 3

\* Turns explored by SpecStore, whose replies carry more item lists.
MaxStoreTurns == 2

\* Largest clock reading explored by SpecClock.
MaxClock == 2

\* Turns explored by SpecClock.
MaxClockTurns == 2

\* Turns explored by SpecLive.
MaxLiveTurns == 2

-----------------------------------------------------------------------------
(* Optional values. *)

None == <<>>

Some(v) == <<v>>

IsSome(o) == o # <<>>

Val(o) == o[1]

-----------------------------------------------------------------------------
(* JavaScript string and array functions used by the code. *)

UpperChars == "ABCDEFGHIJKLMNOPQRSTUVWXYZ"

LowerChars == "abcdefghijklmnopqrstuvwxyz"

\* One character of String.prototype.toLowerCase (ASCII letters).
LowerChar(c) ==
    IF \E i \in 1..Len(UpperChars) : SubSeq(UpperChars, i, i) = c
    THEN LET i == CHOOSE j \in 1..Len(UpperChars) : SubSeq(UpperChars, j, j) = c
         IN  SubSeq(LowerChars, i, i)
    ELSE c

RECURSIVE ToLowerCase(_)
\* String.prototype.toLowerCase
ToLowerCase(s) ==
    IF Len(s) = 0 THEN ""
    ELSE LowerChar(SubSeq(s, 1, 1)) \o ToLowerCase(SubSeq(s, 2, Len(s)))

\* String.prototype.includes: t occurs in s as a contiguous substring.
Includes(s, t) ==
    \E i \in 0..(Len(s) - Len(t)) : SubSeq(s, i + 1, i + Len(t)) = t

IsWhiteSpace(c) == c \in {" ", "\t", "\n"}

RECURSIVE TrimStart(_)
TrimStart(s) ==
    IF Len(s) > 0 /\ IsWhiteSpace(SubSeq(s, 1, 1))
    THEN TrimStart(SubSeq(s, 2, Len(s)))
    ELSE s

RECURSIVE TrimEnd(_)
TrimEnd(s) ==
    IF Len(s) > 0 /\ IsWhiteSpace(SubSeq(s, Len(s), Len(s)))
    THEN TrimEnd(SubSeq(s, 1, Len(s) - 1))
    ELSE s

\* String.prototype.trim
Trim(s) == TrimEnd(TrimStart(s))

RECURSIVE Join(_, _)
\* Array.prototype.join on an array of strings.
Join(xs, sep) ==
    IF Len(xs) = 0 THEN ""
    ELSE IF Len(xs) = 1 THEN xs[1]
    ELSE xs[1] \o sep \o Join(Tail(xs), sep)

\* Whether x is an element of the array xs.
Has(xs, x) == \E i \in 1..Len(xs) : xs[i] = x

RECURSIVE DedupInto(_, _)
DedupInto(acc, xs) ==
    IF Len(xs) = 0 THEN acc
    ELSE DedupInto(IF Has(acc, xs[1]) THEN acc ELSE Append(acc, xs[1]), Tail(xs))

\* [...new Set(xs)]: the elements of xs in order of first occurrence.
SetSpread(xs) == DedupInto(<<>>, xs)

\* Math.max(...xs) for a non-empty array of numbers.
MathMax(xs) == CHOOSE m \in {xs[i] : i \in 1..Len(xs)} :
                   \A i \in 1..Len(xs) : xs[i] <= m

\* Array.prototype.map(c => c.id)
Ids(cs) == [i \in 1..Len(cs) |-> cs[i].id]

\* Mutant of SliceDropLast: the response is appended, nothing is dropped.
SliceDropLast_KeepsAll(xs) == xs

\* Mutant of SliceDropLast: slice(0, -2).
SliceDropLast_DropsTwo(xs) == SubSeq(xs, 1, Len(xs) - 2)

\* Array.prototype.slice(0, -1)
SliceDropLast(xs) == SubSeq(xs, 1, Len(xs) - 1)

-----------------------------------------------------------------------------
(* Action Executor: executeAction, App.tsx:48-145.                         *)
(* The callback reads `containers` from its closure (find, some, max) and  *)
(* changes the store through setContainers(prev => ...), whose argument    *)
(* is the store at the time the update is applied.                         *)

\* if (action.containerNumber): present and not 0.
HasContainerNumber(action) ==
    IsSome(action.containerNumber) /\ Val(action.containerNumber) # 0

\* xs && xs.length > 0
NonEmpty(xs) == IsSome(xs) /\ Len(Val(xs)) > 0

\* containers.some(c => c.id === n); also the truthiness of containers.find(...)
Exists(cs, n) == \E i \in 1..Len(cs) : cs[i].id = n

\* containers.find(c => c.id === n), when there is one.
Find(cs, n) == cs[CHOOSE i \in 1..Len(cs) :
                     cs[i].id = n /\ \A j \in 1..(i - 1) : cs[j].id # n]

\* Mutant of MatchesRemoval: the test without toLowerCase.
MatchesRemoval_CaseSensitive(item, itemsToRemove) ==
    \E k \in 1..Len(itemsToRemove) : Includes(item, itemsToRemove[k])

\* App.tsx:62, the filter's test: the item is dropped when its lowercase
\* form includes the lowercase form of some removal term.
MatchesRemoval(item, itemsToRemove) ==
    \E k \in 1..Len(itemsToRemove) :
        Includes(ToLowerCase(item), ToLowerCase(itemsToRemove[k]))

\* App.tsx:61-63
RemoveItems(items, itemsToRemove) ==
    IF NonEmpty(itemsToRemove)
    THEN SelectSeq(items, LAMBDA item : ~MatchesRemoval(item, Val(itemsToRemove)))
    ELSE items

\* App.tsx:64-66
AddItems(items, itemsToAdd) ==
    IF NonEmpty(itemsToAdd)
    THEN SetSpread(items \o Val(itemsToAdd))
    ELSE items

\* Mutant of UpdatedItems: addition first, then removal.
UpdatedItems_AddFirst(items, itemsToAdd, itemsToRemove) ==
    RemoveItems(AddItems(items, itemsToAdd), itemsToRemove)

\* App.tsx:60-67: removal first, then addition.
UpdatedItems(items, itemsToAdd, itemsToRemove) ==
    AddItems(RemoveItems(items, itemsToRemove), itemsToAdd)

\* Mutant of UpdateItemsOf: the updater without its test of c.id.
UpdateItemsOf_EveryContainer(prev, n, itemsToAdd, itemsToRemove) ==
    [i \in 1..Len(prev) |->
        [prev[i] EXCEPT !.items = UpdatedItems(@, itemsToAdd, itemsToRemove)]]

\* App.tsx:57-71, the updater passed to setContainers.
UpdateItemsOf(prev, n, itemsToAdd, itemsToRemove) ==
    [i \in 1..Len(prev) |->
        IF prev[i].id = n
        THEN [prev[i] EXCEPT !.items = UpdatedItems(@, itemsToAdd, itemsToRemove)]
        ELSE prev[i]]

\* Mutant of UpdateResponse: without the branch for no change.
UpdateResponse_NoEmptyCase(n, itemsToAdd, itemsToRemove) ==
    LET addedText == IF NonEmpty(itemsToAdd)
                     THEN "added \"" \o Join(Val(itemsToAdd), ", ") \o "\""
                     ELSE ""
        removedText == IF NonEmpty(itemsToRemove)
                       THEN "removed \"" \o Join(Val(itemsToRemove), ", ") \o "\""
                       ELSE ""
    IN  IF addedText # "" /\ removedText # ""
        THEN "OK, I've " \o addedText \o " to and " \o removedText
                 \o " from container " \o ToString(n) \o "."
        ELSE IF addedText # ""
        THEN "OK, I've " \o addedText \o " to container " \o ToString(n) \o "."
        ELSE "OK, I've " \o removedText \o " from container " \o ToString(n) \o "."

\* App.tsx:73-84
UpdateResponse(n, itemsToAdd, itemsToRemove) ==
    LET addedText == IF NonEmpty(itemsToAdd)
                     THEN "added \"" \o Join(Val(itemsToAdd), ", ") \o "\""
                     ELSE ""
        removedText == IF NonEmpty(itemsToRemove)
                       THEN "removed \"" \o Join(Val(itemsToRemove), ", ") \o "\""
                       ELSE ""
    IN  IF addedText # "" /\ removedText # ""
        THEN "OK, I've " \o addedText \o " to and " \o removedText
                 \o " from container " \o ToString(n) \o "."
        ELSE IF addedText # ""
        THEN "OK, I've " \o addedText \o " to container " \o ToString(n) \o "."
        ELSE IF removedText # ""
        THEN "OK, I've " \o removedText \o " from container " \o ToString(n) \o "."
        ELSE "OK, no changes were made to container " \o ToString(n) \o "."

\* Mutant of ClearItemsOf: the updater without its test of c.id.
ClearItemsOf_EveryContainer(prev, n) ==
    [i \in 1..Len(prev) |-> [prev[i] EXCEPT !.items = <<>>]]

\* App.tsx:114, the updater passed to setContainers.
ClearItemsOf(prev, n) ==
    [i \in 1..Len(prev) |->
        IF prev[i].id = n THEN [prev[i] EXCEPT !.items = <<>>] ELSE prev[i]]

\* Mutant of NewContainerId: the id taken from the number of containers.
NewContainerId_ByLength(cs) == Len(cs) + 1

\* App.tsx:120
NewContainerId(cs) ==
    IF Len(cs) > 0 THEN MathMax(Ids(cs)) + 1 ELSE 1

\* Mutant of InitialItems: the container is created empty.
InitialItems_Ignored(action) == <<>>

\* App.tsx:121: action.items || []
InitialItems(action) == IF IsSome(action.items) THEN Val(action.items) ELSE <<>>

\* App.tsx:122
CreateResponse(newContainerId, items) ==
    "I've created container " \o ToString(newContainerId)
        \o (IF NonEmpty(items)
            THEN " and added \"" \o Join(Val(items), ", ") \o "\""
            ELSE "")
        \o "."

\* Mutant of DeleteContainer: the filter keeps the ids below n.
DeleteContainer_DropsFrom(prev, n) == SelectSeq(prev, LAMBDA c : c.id < n)

\* App.tsx:129, the updater passed to setContainers.
DeleteContainer(prev, n) == SelectSeq(prev, LAMBDA c : c.id # n)

\* App.tsx:97
ListItemsResponse(container) ==
    "Container " \o ToString(container.id) \o " contains: "
        \o (IF Len(container.items) > 0 THEN Join(container.items, ", ")
            ELSE "It's empty")
        \o "."

\* Mutant of ListAllResponse: the last container is left out.
ListAllResponse_SkipsLast(cs) ==
    "Here's what's in all your containers:\n\n"
        \o Join([i \in 1..(Len(cs) - 1) |->
                    "Container #" \o ToString(cs[i].id) \o ": "
                        \o Join(cs[i].items, ", ")], "\n")

\* App.tsx:106
ListAllResponse(cs) ==
    "Here's what's in all your containers:\n\n"
        \o Join([i \in 1..Len(cs) |->
                    "Container #" \o ToString(cs[i].id) \o ": "
                        \o Join(cs[i].items, ", ")], "\n")

\* App.tsx:49, the response when no case of the switch assigns one.
DefaultResponse == "Sorry, I couldn't perform that action."

\* App.tsx:140
UnknownResponse ==
    "I'm sorry, I didn't quite understand that. Could you please rephrase?"

\* Mutant of ExecuteListItems: the listed container is emptied as well.
ExecuteListItems_Empties(action, closure, prev) ==
    LET n == Val(action.containerNumber)
    IN  IF HasContainerNumber(action)
        THEN IF Exists(closure, n)
             THEN [aiResponse |-> ListItemsResponse(Find(closure, n)),
                   containers |-> ClearItemsOf(prev, n)]
             ELSE [aiResponse |-> "Sorry, I couldn't find container " \o ToString(n) \o ".",
                   containers |-> prev]
        ELSE [aiResponse |-> DefaultResponse, containers |-> prev]

\* App.tsx:93-102, the LIST_ITEMS case, which calls no setContainers.
ExecuteListItems(action, closure, prev) ==
    LET n == Val(action.containerNumber)
    IN  IF HasContainerNumber(action)
        THEN IF Exists(closure, n)
             THEN [aiResponse |-> ListItemsResponse(Find(closure, n)),
                   containers |-> prev]
             ELSE [aiResponse |-> "Sorry, I couldn't find container " \o ToString(n) \o ".",
                   containers |-> prev]
        ELSE [aiResponse |-> DefaultResponse, containers |-> prev]

\* executeAction for an action object: the response text and the store after
\* the queued setContainers update.  `closure` is the `containers` the callback
\* closed over, `prev` the store the updater is applied to.
ExecuteAction(action, closure, prev) ==
    LET n == Val(action.containerNumber)
    IN
    CASE action.action = "UPDATE_ITEMS" ->
            IF HasContainerNumber(action)
            THEN IF Exists(closure, n)
                 THEN [aiResponse |-> UpdateResponse(n, action.itemsToAdd, action.itemsToRemove),
                       containers |-> UpdateItemsOf(prev, n, action.itemsToAdd, action.itemsToRemove)]
                 ELSE [aiResponse |-> "Sorry, I couldn't find container " \o ToString(n) \o ".",
                       containers |-> prev]
            ELSE [aiResponse |-> "Please specify which container to update.",
                  containers |-> prev]
      [] action.action = "LIST_ITEMS" ->
            ExecuteListItems(action, closure, prev)
      [] action.action = "LIST_ALL_CONTAINERS" ->
            IF Len(closure) > 0
            THEN [aiResponse |-> ListAllResponse(closure), containers |-> prev]
            ELSE [aiResponse |-> "You don't have any containers yet.",
                  containers |-> prev]
      [] action.action = "CLEAR_CONTAINER" ->
            IF HasContainerNumber(action)
            THEN [aiResponse |-> "Container " \o ToString(n) \o " has been cleared.",
                  containers |-> ClearItemsOf(prev, n)]
            ELSE [aiResponse |-> DefaultResponse, containers |-> prev]
      [] action.action = "CREATE_CONTAINER" ->
            [aiResponse |-> CreateResponse(NewContainerId(closure), action.items),
             containers |-> Append(prev, [id |-> NewContainerId(closure),
                                          items |-> InitialItems(action)])]
      [] action.action = "DELETE_CONTAINER" ->
            IF HasContainerNumber(action)
            THEN IF Exists(closure, n)
                 THEN [aiResponse |-> "OK, I have deleted container #" \o ToString(n) \o ".",
                       containers |-> DeleteContainer(prev, n)]
                 ELSE [aiResponse |-> "Sorry, I couldn't find container #" \o ToString(n)
                                          \o " to delete.",
                       containers |-> prev]
            ELSE [aiResponse |-> "Please specify which container you'd like to delete.",
                  containers |-> prev]
      [] action.action = "UNKNOWN" ->
            [aiResponse |-> UnknownResponse, containers |-> prev]
      [] OTHER ->
            [aiResponse |-> DefaultResponse, containers |-> prev]

\* Mutant of ExecuteThrows: join never throws.
ExecuteThrows_Never(action, closure) == FALSE

\* executeAction throws after it has queued its update: App.tsx:73,
\* itemsToAdd.join is not a function when itemsToAdd is a non-empty string
\* (the updater of App.tsx:57-71, already queued, spreads its characters
\* into the item list).
ExecuteThrows(action, closure) ==
    /\ action.action = "UPDATE_ITEMS"
    /\ HasContainerNumber(action)
    /\ Exists(closure, Val(action.containerNumber))
    /\ NonEmpty(action.itemsToAdd)
    /\ ~action.itemsToAddIsArray

-----------------------------------------------------------------------------
(* LLM clients: geminiService.ts.                                          *)
(* A reply of ai.models.generateContent is a rejection (transport          *)
(* failure), a response whose text JSON.parse rejects, or a response       *)
(* whose text parses to a JSON value: null (None) or an object (Some).     *)

Rejected == [kind |-> "rejected", value |-> None]

NotJson == [kind |-> "notJson", value |-> None]

JsonNull == [kind |-> "json", value |-> None]

Json(object) == [kind |-> "json", value |-> Some(object)]

\* types.ts:14-22, the values of ActionType.
ActionTypes == {"UPDATE_ITEMS", "LIST_ITEMS", "LIST_ALL_CONTAINERS",
                "CLEAR_CONTAINER", "CREATE_CONTAINER", "DELETE_CONTAINER",
                "UNKNOWN"}

\* An object of the shape of AIAction (types.ts:24-30); an absent or null
\* field is None.
Action(name, containerNumber, items, itemsToAdd, itemsToRemove) ==
    [action |-> name, containerNumber |-> containerNumber, items |-> items,
     itemsToAdd |-> itemsToAdd, itemsToRemove |-> itemsToRemove,
     itemsToAddIsArray |-> TRUE]

\* The action object with a string where the itemsToAdd array should be
\* (nothing checks the parsed reply against the response schema): the field
\* holds the string's characters, which is what length and spread see.
WithStringToAdd(action, s) ==
    [action EXCEPT !.itemsToAdd = Some([i \in 1..Len(s) |-> SubSeq(s, i, i)]),
                   !.itemsToAddIsArray = FALSE]

\* geminiService.ts:109
UnknownAction == Action("UNKNOWN", None, None, None, None)

\* interpretUserCommand from its await on (geminiService.ts:93-110): what the
\* promise resolves to.  A rejection and a SyntaxError of JSON.parse are
\* caught; whatever JSON.parse returns is returned as it is, null included.
InterpretUserCommand(reply) ==
    IF reply.kind = "json" THEN reply.value ELSE Some(UnknownAction)

\* The value of `items` in an image reply, which nothing checks against the
\* response schema: an array of strings, or a string.  Both have a length
\* and indexed elements (a string's are its characters); only an array has
\* join.
Array(elements) == [isArray |-> TRUE, elements |-> elements]

String(s) == [isArray |-> FALSE, elements |-> [i \in 1..Len(s) |-> SubSeq(s, i, i)]]

\* analyzeImageOfBinContents from its await on (geminiService.ts:125-141):
\* result.items || [], and [] when anything throws (result.items of null
\* is a TypeError).  An array is truthy, a string is unless it is empty.
AnalyzeImageOfBinContents(reply) ==
    IF reply.kind = "json" /\ IsSome(reply.value) /\ IsSome(Val(reply.value).items)
          /\ (Val(Val(reply.value).items).isArray
                 \/ Len(Val(Val(reply.value).items).elements) > 0)
    THEN Val(Val(reply.value).items)
    ELSE Array(<<>>)

-----------------------------------------------------------------------------
(* App and CameraModal.                                                    *)

\* App.tsx:11-14
SeedContainers ==
    << [id |-> 1, items |-> <<"Christmas Decorations", "Wreaths", "Tree Stand">>],
       [id |-> 2, items |-> <<"Camping Gear", "Tent", "Sleeping Bags">>] >>

\* types.ts:7-12; isLoading is FALSE where the code leaves it undefined.
Message(id, sender, text, isLoading) ==
    [id |-> id, sender |-> sender, text |-> text, isLoading |-> isLoading]

\* App.tsx:31-35
WelcomeMessage ==
    Message("welcome", "ai",
            "Welcome to your Container Assistant! How can I help you today? You can say things like 'What's in container 1?' or 'Add winter clothes to a new container'.",
            FALSE)

\* The state once App has mounted and its effects have run (App.tsx:11-42).
Init ==
    /\ containers = SeedContainers
    /\ messages = <<WelcomeMessage>>
    /\ userInput = ""
    /\ isProcessing = FALSE
    /\ isCameraOpen = FALSE
    /\ pendingScannedItems = None
    /\ selectedContainerId = None
    /\ now = 0
    /\ sendCall = None
    /\ scanCall = None
    /\ lastEvent = "other"
    /\ turns = 0

\* App.tsx:289, onChange of the input field, which is disabled while
\* isProcessing (App.tsx:293).
TypeInput(text) ==
    /\ ~isProcessing
    /\ userInput' = text
    /\ lastEvent' = "other"
    /\ UNCHANGED <<containers, messages, isProcessing, isCameraOpen,
                   pendingScannedItems, selectedContainerId, now, sendCall,
                   scanCall, turns>>

\* Mutant of SendIsIgnored: the guard without its busy check.
SendIsIgnored_NoBusyCheck(messageText) == Trim(messageText) = ""

\* App.tsx:148, the guard of handleSendMessage.
SendIsIgnored(messageText) == Trim(messageText) = "" \/ isProcessing

\* geminiService.ts:69: pendingItemsContext.items.join throws when items is
\* not an array, inside the try block of interpretUserCommand and before the
\* request is made.
PromptThrows(pendingItemsContext) ==
    IsSome(pendingItemsContext) /\ ~Val(pendingItemsContext).itemsIsArray

\* handleSendMessage(userInput) up to its await (App.tsx:147-162).  The call
\* record keeps what the callback closed over (containers,
\* pendingScannedItems) and the pending scan passed to interpretUserCommand.
\* When building the prompt throws, no request is made and the call is in
\* the state of one whose request was rejected.
HandleSendMessage(limit) ==
    /\ lastEvent' = "handleSendMessage"
    /\ IF SendIsIgnored(userInput)
       THEN UNCHANGED <<containers, messages, userInput, isProcessing,
                        isCameraOpen, pendingScannedItems, selectedContainerId,
                        now, sendCall, scanCall, turns>>
       ELSE /\ turns < limit
            /\ turns' = turns + 1
            /\ messages' = messages \o
                   << Message(ToString(now), "user", userInput, FALSE),
                      Message(ToString(now + 1), "ai", "...", TRUE) >>
            /\ isProcessing' = TRUE
            /\ sendCall' = Some([messageText |-> userInput,
                                 containers |-> containers,
                                 pendingScannedItems |-> pendingScannedItems,
                                 pendingItemsContext |-> pendingScannedItems,
                                 reply |-> IF PromptThrows(pendingScannedItems)
                                           THEN Some(Rejected) ELSE None])
            /\ UNCHANGED <<containers, userInput, isCameraOpen,
                           pendingScannedItems, selectedContainerId, now,
                           scanCall>>

\* The generateContent call of interpretUserCommand settles
\* (geminiService.ts:93-101).
CommandReplyArrives(reply) ==
    /\ IsSome(sendCall)
    /\ Val(sendCall).reply = None
    /\ sendCall' = Some([Val(sendCall) EXCEPT !.reply = Some(reply)])
    /\ lastEvent' = "other"
    /\ UNCHANGED <<containers, messages, userInput, isProcessing, isCameraOpen,
                   pendingScannedItems, selectedContainerId, now, scanCall, turns>>

\* Mutant of IsProcessingAfterTurn: setIsProcessing(false) at the end of the
\* try block instead of in a finally block.
IsProcessingAfterTurn_NoFinally(threw) == threw

\* App.tsx:183-185 and 216-217: the finally blocks of handleSendMessage and
\* handleCameraScan call setIsProcessing(false), whether or not the try
\* block threw.
IsProcessingAfterTurn(threw) == FALSE

\* Mutant of PendingAfterSend: the pending scan is never cleared.
PendingAfterSend_Keeps(closurePending, current) == current

\* App.tsx:164-166 and 176-178: in the try block and in the catch block
\* alike, if (pendingScannedItems) setPendingScannedItems(null), on the
\* pendingScannedItems the callback closed over.
PendingAfterSend(closurePending, current) ==
    IF IsSome(closurePending) THEN None ELSE current

\* handleSendMessage from its await to its end (App.tsx:158-186), with the
\* rest of interpretUserCommand.  executeAction(null) throws at
\* action.action, before any setContainers, and the catch block runs; it
\* also runs when executeAction throws after its setContainers, whose update
\* is applied all the same.
ResumeSendMessage ==
    /\ IsSome(sendCall)
    /\ IsSome(Val(sendCall).reply)
    /\ LET call == Val(sendCall)
           action == InterpretUserCommand(Val(call.reply))
       IN  /\ pendingScannedItems' =
                  PendingAfterSend(call.pendingScannedItems, pendingScannedItems)
           /\ IF IsSome(action)
              THEN LET result == ExecuteAction(Val(action), call.containers, containers)
                   IN  /\ containers' = result.containers
                       /\ messages' = Append(SliceDropLast(messages),
                              IF ExecuteThrows(Val(action), call.containers)
                              THEN Message(ToString(now + 2), "system",
                                           "An error occurred. Please try again.", FALSE)
                              ELSE Message(ToString(now + 2), "ai", result.aiResponse, FALSE))
              ELSE /\ containers' = containers
                   /\ messages' = Append(SliceDropLast(messages),
                          Message(ToString(now + 2), "system",
                                  "An error occurred. Please try again.", FALSE))
    /\ LET action == InterpretUserCommand(Val(Val(sendCall).reply))
       IN  isProcessing' = IsProcessingAfterTurn(
               ~IsSome(action) \/ ExecuteThrows(Val(action), Val(sendCall).containers))
    /\ userInput' = ""
    /\ sendCall' = None
    /\ lastEvent' = "other"
    /\ UNCHANGED <<isCameraOpen, selectedContainerId, now, scanCall, turns>>

\* App.tsx:269, the open-camera button (never disabled); CameraModal mounts
\* and initialises its selection (App.tsx:318).
OpenCamera ==
    /\ ~isCameraOpen
    /\ isCameraOpen' = TRUE
    /\ selectedContainerId' =
           IF Len(containers) > 0 THEN Some(containers[1].id) ELSE None
    /\ lastEvent' = "other"
    /\ UNCHANGED <<containers, messages, userInput, isProcessing,
                   pendingScannedItems, now, sendCall, scanCall, turns>>

\* App.tsx:223 and 369, onClose; CameraModal unmounts.
CloseCamera ==
    /\ isCameraOpen
    /\ isCameraOpen' = FALSE
    /\ selectedContainerId' = None
    /\ lastEvent' = "other"
    /\ UNCHANGED <<containers, messages, userInput, isProcessing,
                   pendingScannedItems, now, sendCall, scanCall, turns>>

\* App.tsx:380, onChange of the select, whose options are the containers
\* of the current store (App.tsx:384-386).
SelectContainer(id) ==
    /\ isCameraOpen
    /\ Exists(containers, id)
    /\ selectedContainerId' = Some(id)
    /\ lastEvent' = "other"
    /\ UNCHANGED <<containers, messages, userInput, isProcessing, isCameraOpen,
                   pendingScannedItems, now, sendCall, scanCall, turns>>

\* Mutant of CaptureEnabled: the button not disabled while isScanning.
CaptureEnabled_IgnoresScanning == isCameraOpen /\ Len(containers) > 0

\* App.tsx:398, the capture button is enabled.
CaptureEnabled == isCameraOpen /\ ~isProcessing /\ Len(containers) > 0

\* A click on the capture button: handleCapture (App.tsx:350-364) and, with a
\* selection, handleCameraScan up to its await (App.tsx:189-197).  Without a
\* selection handleCapture only sets the modal's error text.
HandleCapture(limit) ==
    /\ CaptureEnabled
    /\ lastEvent' = "other"
    /\ IF IsSome(selectedContainerId)
       THEN /\ turns < limit
            /\ turns' = turns + 1
            /\ isCameraOpen' = FALSE
            /\ selectedContainerId' = None
            /\ messages' = Append(messages,
                   Message(ToString(now + 1), "system",
                           "Scanning container #" \o ToString(Val(selectedContainerId)) \o "...",
                           TRUE))
            /\ isProcessing' = TRUE
            /\ scanCall' = Some([containerId |-> Val(selectedContainerId),
                                 reply |-> None])
            /\ UNCHANGED <<containers, userInput, pendingScannedItems, now, sendCall>>
       ELSE UNCHANGED <<containers, messages, userInput, isProcessing,
                        isCameraOpen, pendingScannedItems, selectedContainerId,
                        now, sendCall, scanCall, turns>>

\* The generateContent call of analyzeImageOfBinContents settles
\* (geminiService.ts:125-132).
ImageReplyArrives(reply) ==
    /\ IsSome(scanCall)
    /\ Val(scanCall).reply = None
    /\ scanCall' = Some([Val(scanCall) EXCEPT !.reply = Some(reply)])
    /\ lastEvent' = "other"
    /\ UNCHANGED <<containers, messages, userInput, isProcessing, isCameraOpen,
                   pendingScannedItems, selectedContainerId, now, sendCall, turns>>

\* Mutant of StoreAfterScan: the scan writes what it found into the store.
StoreAfterScan_AddsItems(prev, containerId, items) ==
    UpdateItemsOf(prev, containerId, Some(items), None)

\* The store after handleCameraScan, which makes no call of setContainers
\* (App.tsx:189-219).
StoreAfterScan(prev, containerId, items) == prev

\* handleCameraScan from its await to its end (App.tsx:197-218), with the
\* rest of analyzeImageOfBinContents.  pendingScannedItems holds the items'
\* elements and whether they are an array's; when they are not, items.join
\* throws after setPendingScannedItems and the catch block writes the
\* message.
ResumeCameraScan ==
    /\ IsSome(scanCall)
    /\ IsSome(Val(scanCall).reply)
    /\ LET containerId == Val(scanCall).containerId
           result == AnalyzeImageOfBinContents(Val(Val(scanCall).reply))
           items == result.elements
       IN  IF Len(items) > 0
           THEN /\ pendingScannedItems' =
                       Some([containerId |-> containerId, items |-> items,
                             itemsIsArray |-> result.isArray])
                /\ messages' = Append(SliceDropLast(messages),
                       IF result.isArray
                       THEN Message(ToString(now), "ai",
                               "I scanned container #" \o ToString(containerId)
                                   \o " and found these items: " \o Join(items, ", ")
                                   \o ". Which of these should I add?",
                               FALSE)
                       ELSE Message(ToString(now + 2), "system",
                               "An error occurred while scanning the image.", FALSE))
           ELSE /\ pendingScannedItems' = pendingScannedItems
                /\ messages' = Append(SliceDropLast(messages),
                       Message(ToString(now + 2), "ai",
                               "I couldn't identify any distinct items in container #"
                                   \o ToString(containerId) \o ", so I left it as is.",
                               FALSE))
    /\ containers' = StoreAfterScan(containers, Val(scanCall).containerId,
                                     AnalyzeImageOfBinContents(Val(Val(scanCall).reply)).elements)
    /\ LET result == AnalyzeImageOfBinContents(Val(Val(scanCall).reply))
       IN  isProcessing' = IsProcessingAfterTurn(
               Len(result.elements) > 0 /\ ~result.isArray)
    /\ scanCall' = None
    /\ lastEvent' = "other"
    /\ UNCHANGED <<userInput, isCameraOpen, selectedContainerId, now, sendCall,
                   turns>>

\* Date.now() advances.
Tick ==
    /\ now < MaxClock
    /\ now' = now + 1
    /\ lastEvent' = "other"
    /\ UNCHANGED <<containers, messages, userInput, isProcessing, isCameraOpen,
                   pendingScannedItems, selectedContainerId, sendCall, scanCall,
                   turns>>

-----------------------------------------------------------------------------
(* Inputs and specifications.                                              *)

\* Texts the user leaves in the input field: empty, blank, a command.
InputTexts == {"", "  ", "add skis"}

NoFields(name) == Json(Action(name, None, None, None, None))

WithNumber(name, n) == Json(Action(name, Some(n), None, None, None))

\* Replies to interpretUserCommand's request explored by Spec: the three
\* failures, an action name outside ActionType, actions that read, grow,
\* shrink and update the store, and an update whose itemsToAdd is a string.
CommandReplies ==
    {Rejected, NotJson, JsonNull}
    \cup {NoFields(name) : name \in {"UNKNOWN", "LIST_ALL_CONTAINERS",
                                     "CREATE_CONTAINER", "MOVE_ITEMS"}}
    \cup {WithNumber("DELETE_CONTAINER", n) : n \in {1, 2}}
    \cup {Json(Action("UPDATE_ITEMS", Some(1), None, Some(itemsToAdd), None)) :
             itemsToAdd \in {<<>>, <<"Skis">>}}
    \cup {Json(WithStringToAdd(Action("UPDATE_ITEMS", Some(1), None, None, None), "Ski"))}

\* Replies to analyzeImageOfBinContents' request: the two failures, and
\* objects without items, with no item, with two items, and with a string
\* where the array should be.
ImageReplies ==
    {Rejected, JsonNull}
    \cup {Json([items |-> items]) :
             items \in {None, Some(Array(<<>>)), Some(Array(<<"Skis", "Remote">>)),
                        Some(String("Ski"))}}

\* Container ids the user can pick in the camera modal.
SelectableIds == 1..(Len(SeedContainers) + MaxTurns)

\* The program with the clock held at one reading.
Next ==
    \/ \E text \in InputTexts : TypeInput(text)
    \/ HandleSendMessage(MaxTurns)
    \/ \E reply \in CommandReplies : CommandReplyArrives(reply)
    \/ ResumeSendMessage
    \/ OpenCamera
    \/ CloseCamera
    \/ \E id \in SelectableIds : SelectContainer(id)
    \/ HandleCapture(MaxTurns)
    \/ \E reply \in ImageReplies : ImageReplyArrives(reply)
    \/ ResumeCameraScan

Spec == Init /\ [][Next]_vars

\* Item lists of the replies explored by SpecStore: absent, empty, one
\* item, an item of the seed store, a list that repeats an item.
AddLists == {None, Some(<<>>), Some(<<"Skis">>), Some(<<"Tent", "Skis">>),
             Some(<<"Skis", "Skis">>)}

\* Removal terms: the lowercase of a seed item, and a proper lowercase
\* substring of an added item.
RemoveLists == {None, Some(<<>>), Some(<<"tent">>), Some(<<"ski">>)}

CreateLists == {None, Some(<<>>), Some(<<"Skis">>), Some(<<"Skis", "Skis">>)}

\* containerNumber values: absent, a seed container, the first id a
\* CREATE_CONTAINER hands out.
StoreNumbers == {None, Some(2), Some(3)}

\* Replies explored by SpecStore: every action type over these parameters.
StoreReplies ==
    {Json(Action("UPDATE_ITEMS", n, None, itemsToAdd, itemsToRemove)) :
         n \in {Some(2), Some(3)}, itemsToAdd \in AddLists,
         itemsToRemove \in RemoveLists}
    \cup {Json(Action("UPDATE_ITEMS", None, None, Some(<<"Skis">>), None))}
    \cup {Json(Action("CREATE_CONTAINER", None, items, None, None)) :
             items \in CreateLists}
    \cup {Json(Action(name, n, None, None, None)) :
             name \in {"DELETE_CONTAINER", "CLEAR_CONTAINER", "LIST_ITEMS"},
             n \in StoreNumbers}
    \cup {NoFields("LIST_ALL_CONTAINERS"), NoFields("UNKNOWN")}

\* Text turns only, over StoreReplies.
NextStore ==
    \/ TypeInput("add skis")
    \/ HandleSendMessage(MaxStoreTurns)
    \/ \E reply \in StoreReplies : CommandReplyArrives(reply)
    \/ ResumeSendMessage

SpecStore == Init /\ [][NextStore]_vars

\* The program with the clock advancing between any two steps.
NextClock ==
    \/ Tick
    \/ \E text \in InputTexts : TypeInput(text)
    \/ HandleSendMessage(MaxClockTurns)
    \/ \E reply \in CommandReplies : CommandReplyArrives(reply)
    \/ ResumeSendMessage
    \/ OpenCamera
    \/ CloseCamera
    \/ \E id \in SelectableIds : SelectContainer(id)
    \/ HandleCapture(MaxClockTurns)
    \/ \E reply \in ImageReplies : ImageReplyArrives(reply)
    \/ ResumeCameraScan

SpecClock == Init /\ [][NextClock]_vars

\* Replies to interpretUserCommand's request explored by SpecLive, one for
\* each way a send turn can end: a rejected request (UNKNOWN), an UNKNOWN
\* reply, an executed action, JSON null (executeAction throws at once), and
\* an update that throws after it was queued.
LiveCommandReplies ==
    {Rejected, JsonNull, NoFields("UNKNOWN"), NoFields("LIST_ALL_CONTAINERS"),
     Json(WithStringToAdd(Action("UPDATE_ITEMS", Some(1), None, None, None), "S"))}

\* The program with the clock held at one reading, over fewer turns and
\* replies.
NextLive ==
    \/ \E text \in InputTexts : TypeInput(text)
    \/ HandleSendMessage(MaxLiveTurns)
    \/ \E reply \in LiveCommandReplies : CommandReplyArrives(reply)
    \/ ResumeSendMessage
    \/ OpenCamera
    \/ CloseCamera
    \/ \E id \in SelectableIds : SelectContainer(id)
    \/ HandleCapture(MaxLiveTurns)
    \/ \E reply \in ImageReplies : ImageReplyArrives(reply)
    \/ ResumeCameraScan

\* The steps a turn in flight is waiting for: its generateContent call
\* settles (it resolves or rejects), and the event loop runs the
\* continuation of the awaiting handler.  At most one of them is enabled at
\* a time, since one turn is in flight at a time.
TurnProgresses ==
    \/ \E reply \in LiveCommandReplies : CommandReplyArrives(reply)
    \/ \E reply \in ImageReplies : ImageReplyArrives(reply)
    \/ ResumeSendMessage
    \/ ResumeCameraScan

\* The outstanding call settles and the continuation runs; the user is
\* under no obligation to do anything.
SpecLive == Init /\ [][NextLive]_vars /\ WF_vars(TurnProgresses)

-----------------------------------------------------------------------------
(* Properties.                                                             *)

\* The step is handleSendMessage resuming after its await.
ResumesSend ==
    IsSome(sendCall) /\ IsSome(Val(sendCall).reply) /\ sendCall' = None

\* The reply the resuming handleSendMessage got.
SendReply == Val(Val(sendCall).reply)

\* The resuming handleSendMessage got a JSON object whose action is `name`.
ResumesWith(name) ==
    /\ ResumesSend
    /\ SendReply.kind = "json"
    /\ IsSome(SendReply.value)
    /\ Val(SendReply.value).action = name

\* The set of ids in a store.
IdSet(cs) == {cs[i].id : i \in 1..Len(cs)}

\* The last message of the transcript.
LastMessage == messages[Len(messages)]

IdsPositiveAndDistinct ==
    /\ \A i \in 1..Len(containers) : containers[i].id > 0
    /\ \A i, j \in 1..Len(containers) :
           containers[i].id = containers[j].id => i = j

CreateAppendsMaxPlusOne ==
    ResumesWith("CREATE_CONTAINER") =>
        /\ Len(containers') = Len(containers) + 1
        /\ SubSeq(containers', 1, Len(containers)) = containers
        /\ LET newId == containers'[Len(containers')].id
           IN  IF Len(containers) = 0 THEN newId = 1
               ELSE /\ (newId - 1) \in IdSet(containers)
                    /\ \A id \in IdSet(containers) : id < newId

\* C1: in every reachable state the container ids are positive and pairwise
\* distinct, and every executed CREATE_CONTAINER appends one container whose
\* id is the largest id of the store plus one, or 1 when the store is empty.
C1_CreateAssignsMaxPlusOne ==
    [](IdsPositiveAndDistinct) /\ [][CreateAppendsMaxPlusOne]_vars

\* C1 witness: both seed containers were deleted and a container was then
\* created in the empty store; it got id 1.
C1_Witness == containers = << [id |-> 1, items |-> <<>>] >>

\* C2: a call of handleSendMessage while isProcessing, or with an empty or
\* blank text, changes nothing: transcript, store, pending scan, busy flag,
\* input text, camera state, and no interpreter call is started.
C2_IgnoredSendIsNoOp ==
    [][(lastEvent' = "handleSendMessage"
            /\ (isProcessing \/ Trim(userInput) = ""))
        => UNCHANGED <<containers, messages, userInput, isProcessing,
                       isCameraOpen, pendingScannedItems, selectedContainerId,
                       sendCall, scanCall, turns>>]_vars

\* C2 witness: handleSendMessage was called, with a command in the input
\* field, while the earlier turn was in flight with its reply arrived.
C2_Witness ==
    /\ lastEvent = "handleSendMessage"
    /\ isProcessing
    /\ IsSome(sendCall)
    /\ IsSome(Val(sendCall).reply)
    /\ Trim(userInput) # ""

OneCallOutstanding ==
    /\ ~(IsSome(sendCall) /\ IsSome(scanCall))
    /\ isProcessing <=> (IsSome(sendCall) \/ IsSome(scanCall))

TurnStartsWhenIdle ==
    turns' # turns => (~isProcessing /\ sendCall = None /\ scanCall = None)

\* C3: at most one interpreter call is outstanding: a send turn and a scan
\* are never in flight together, a turn (send or scan) starts only when none
\* is in flight, and isProcessing is true exactly while one is.
C3_OneInterpreterCallAtATime ==
    [](OneCallOutstanding) /\ [][TurnStartsWhenIdle]_vars

\* C3 witness: a send turn is in flight while the camera modal is open with
\* a container selected (the capture button is what keeps the scan out).
C3_Witness ==
    /\ IsSome(sendCall)
    /\ isCameraOpen
    /\ IsSome(selectedContainerId)

PendingIsPassedOnAccept ==
    (sendCall = None /\ sendCall' # None) =>
        /\ Val(sendCall').pendingItemsContext = pendingScannedItems
        /\ pendingScannedItems' = pendingScannedItems

PendingIsClearedOnFinish ==
    (ResumesSend /\ IsSome(Val(sendCall).pendingItemsContext)) =>
        pendingScannedItems' = None

\* C4: the pending scan set when a command is accepted is what the
\* interpreter is given for that turn, and when that turn finishes
\* pendingScannedItems is null, whatever the reply was and whether or not
\* execution threw (so the next turn is given none).
C4_PendingScanLastsOneTurn ==
    [][PendingIsPassedOnAccept /\ PendingIsClearedOnFinish]_vars

\* C4 witness: the turn right after a scan that found items ended in the
\* catch block (the reply was JSON null), and the pending scan is gone.
C4_Witness ==
    /\ Len(messages) >= 3
    /\ ~isProcessing
    /\ LastMessage.text = "An error occurred. Please try again."
    /\ messages[Len(messages) - 1].sender = "user"
    /\ messages[Len(messages) - 2].text =
           "I scanned container #1 and found these items: Skis, Remote. Which of these should I add?"
    /\ pendingScannedItems = None

\* The reply is a JSON object whose action is one of the ActionType values.
MatchesActionSchema(reply) ==
    /\ reply.kind = "json"
    /\ IsSome(reply.value)
    /\ Val(reply.value).action \in ActionTypes

\* C5 (as claimed; the code violates it): a reply to text interpretation
\* that is not a JSON object with one of the 7 action names (transport
\* failure, unparsable text, JSON null, another action name) is interpreted
\* as the UNKNOWN action and the turn's response is the fixed "didn't
\* understand" text from the ai sender.
C5_MalformedReplyBecomesUnknown ==
    [][(ResumesSend /\ ~MatchesActionSchema(SendReply)) =>
           /\ InterpretUserCommand(SendReply) = Some(UnknownAction)
           /\ LastMessage'.sender = "ai"
           /\ LastMessage'.text =
                  "I'm sorry, I didn't quite understand that. Could you please rephrase?"]_vars

ScanLeavesStore ==
    (IsSome(scanCall) \/ IsSome(scanCall')) => containers' = containers

StoreChangesOnlyInSendTurn ==
    containers' # containers =>
        \E name \in {"UPDATE_ITEMS", "CLEAR_CONTAINER", "CREATE_CONTAINER",
                     "DELETE_CONTAINER"} : ResumesWith(name)

ItemsEnterOnlyByUpdate ==
    (\E i \in 1..Len(containers), j \in 1..Len(containers') :
        /\ containers'[j].id = containers[i].id
        /\ \E k \in 1..Len(containers'[j].items) :
               ~Has(containers[i].items, containers'[j].items[k]))
    => ResumesWith("UPDATE_ITEMS")

\* C6: no step from the start of handleCameraScan to its end changes the
\* store, whatever the analysis returns; the store changes only in the step
\* that executes the action of a send turn, and an existing container gains
\* an item only when that action is UPDATE_ITEMS.
C6_ScanNeverChangesStore ==
    [][ScanLeavesStore /\ StoreChangesOnlyInSendTurn /\ ItemsEnterOnlyByUpdate]_vars

\* C6 witness: a scan of container 1 has finished with items, none of which
\* is in container 1.
C6_Witness ==
    /\ ~isProcessing
    /\ IsSome(pendingScannedItems)
    /\ Val(pendingScannedItems).containerId = 1
    /\ Exists(containers, 1)
    /\ \A k \in 1..Len(Val(pendingScannedItems).items) :
           ~Has(Find(containers, 1).items, Val(pendingScannedItems).items[k])

\* The pending scan given to the interpreter by the resuming turn.
PendingContext == Val(Val(sendCall).pendingItemsContext)

\* The step changes nothing in the store but the items of the pending scan's
\* container, which loses no item and gains only items of the pending scan.
OnlyAddsPendingItems ==
    /\ Len(containers') = Len(containers)
    /\ \A i \in 1..Len(containers) :
           /\ containers'[i].id = containers[i].id
           /\ IF containers[i].id = PendingContext.containerId
              THEN /\ \A k \in 1..Len(containers[i].items) :
                          Has(containers'[i].items, containers[i].items[k])
                   /\ \A k \in 1..Len(containers'[i].items) :
                          \/ Has(containers[i].items, containers'[i].items[k])
                          \/ Has(PendingContext.items, containers'[i].items[k])
              ELSE containers'[i] = containers[i]

\* The reply the prompt asks for when a scan is pending
\* (geminiService.ts:68-74): UPDATE_ITEMS for the scan's container, with
\* itemsToAdd drawn from the scanned items (empty to decline) and nothing to
\* remove.
IsInstructedReply(reply) ==
    /\ reply.kind = "json"
    /\ IsSome(reply.value)
    /\ LET action == Val(reply.value)
       IN  /\ action.action = "UPDATE_ITEMS"
           /\ action.containerNumber = Some(PendingContext.containerId)
           /\ ~NonEmpty(action.itemsToRemove)
           /\ IsSome(action.itemsToAdd) =>
                  \A k \in 1..Len(Val(action.itemsToAdd)) :
                      Has(PendingContext.items, Val(action.itemsToAdd)[k])

\* C7 (as claimed; refuted): with a pending scan attached to a turn, the only
\* store change the turn makes is adding items of the pending scan to the
\* scan's container; no other container is modified, created or deleted.
C7_PendingTurnOnlyAddsScannedItems ==
    [][(ResumesSend /\ IsSome(Val(sendCall).pendingItemsContext))
        => OnlyAddsPendingItems]_vars

\* C7 (amended): with a pending scan attached to a turn, when the reply is
\* the one the prompt asks for (UPDATE_ITEMS for the scan's container, its
\* itemsToAdd among the scanned items, nothing to remove), the only store
\* change is adding those items to that container; nothing else is modified,
\* created or deleted.
C7_InstructedReplyOnlyAddsScannedItems ==
    [][(ResumesSend /\ IsSome(Val(sendCall).pendingItemsContext)
            /\ IsInstructedReply(SendReply))
        => OnlyAddsPendingItems]_vars

\* C7 witness: the turn after a scan of container 1 that found Skis and
\* Remote added Skis, and only Skis, to container 1.
C7_Witness ==
    /\ Len(messages) >= 3
    /\ ~isProcessing
    /\ pendingScannedItems = None
    /\ LastMessage.text = "OK, I've added \"Skis\" to container 1."
    /\ messages[Len(messages) - 2].text =
           "I scanned container #1 and found these items: Skis, Remote. Which of these should I add?"
    /\ Exists(containers, 1)
    /\ Has(Find(containers, 1).items, "Skis")
    /\ ~Has(Find(containers, 1).items, "Remote")

\* The action object the resuming handleSendMessage executes.
SendAction == Val(SendReply.value)

\* The resuming turn executes UPDATE_ITEMS on a container of the store.
UpdatesExisting ==
    /\ ResumesWith("UPDATE_ITEMS")
    /\ HasContainerNumber(SendAction)
    /\ Exists(containers, Val(SendAction.containerNumber))

\* The items of the updated container before and after the step.
OldItems == Find(containers, Val(SendAction.containerNumber)).items

NewItems == Find(containers', Val(SendAction.containerNumber)).items

RECURSIVE FirstOccurrences(_)
\* xs with every element dropped that equals an earlier one.
FirstOccurrences(xs) ==
    IF Len(xs) = 0 THEN <<>>
    ELSE LET front == FirstOccurrences(SubSeq(xs, 1, Len(xs) - 1))
         IN  IF Has(front, xs[Len(xs)]) THEN front
             ELSE Append(front, xs[Len(xs)])

\* C8 (as claimed; the code violates it): an UPDATE_ITEMS that only adds
\* leaves the list unchanged when every added item is already in it, and in
\* general yields the old list followed by the new items, with every exact
\* duplicate after its first occurrence dropped.
C8_AddIsIdempotentWithDedup ==
    [][(UpdatesExisting /\ NonEmpty(SendAction.itemsToAdd)
            /\ ~NonEmpty(SendAction.itemsToRemove))
        => /\ NewItems = FirstOccurrences(OldItems \o Val(SendAction.itemsToAdd))
           /\ (\A k \in 1..Len(Val(SendAction.itemsToAdd)) :
                   Has(OldItems, Val(SendAction.itemsToAdd)[k]))
              => NewItems = OldItems]_vars

\* C9 (as claimed; the code violates it): no container's item list holds
\* two equal strings.
C9_NoDuplicateItems ==
    \A i \in 1..Len(containers) :
        \A j, k \in 1..Len(containers[i].items) :
            containers[i].items[j] = containers[i].items[k] => j = k

\* The lowercase form of item contains the lowercase form of a term.
ContainsSomeTerm(item, terms) ==
    \E k \in 1..Len(terms) :
        \E at \in 0..(Len(item) - Len(terms[k])) :
            ToLowerCase(SubSeq(item, at + 1, at + Len(terms[k]))) = ToLowerCase(terms[k])

\* C10: in an UPDATE_ITEMS with a non-empty itemsToRemove, an item of the
\* container that matches no term (case-insensitive substring) stays, an
\* item that matches one is gone unless itemsToAdd adds it again, and the
\* items that stay keep their order: without itemsToAdd the new list is the
\* old list without the matching items, with itemsToAdd it starts with them.
C10_RemovalIsCaseInsensitiveSubstring ==
    [][(UpdatesExisting /\ NonEmpty(SendAction.itemsToRemove)) =>
        LET terms == Val(SendAction.itemsToRemove)
            kept == SelectSeq(OldItems, LAMBDA x : ~ContainsSomeTerm(x, terms))
        IN  /\ \A k \in 1..Len(OldItems) :
                   ~ContainsSomeTerm(OldItems[k], terms) => Has(NewItems, OldItems[k])
            /\ \A k \in 1..Len(OldItems) :
                   (/\ ContainsSomeTerm(OldItems[k], terms)
                    /\ ~(/\ NonEmpty(SendAction.itemsToAdd)
                         /\ Has(Val(SendAction.itemsToAdd), OldItems[k])))
                   => ~Has(NewItems, OldItems[k])
            /\ IF NonEmpty(SendAction.itemsToAdd)
               THEN /\ Len(NewItems) >= Len(FirstOccurrences(kept))
                    /\ SubSeq(NewItems, 1, Len(FirstOccurrences(kept)))
                           = FirstOccurrences(kept)
               ELSE NewItems = kept]_vars

\* C10 witness: the term "tent" removed the seed item "Tent" from
\* container 2 and left the other two in order.
C10_Witness ==
    /\ LastMessage.text = "OK, I've removed \"tent\" from container 2."
    /\ Exists(containers, 2)
    /\ Find(containers, 2).items = <<"Camping Gear", "Sleeping Bags">>

\* The positions of the transcript that hold a loading placeholder.
LoadingPositions == {i \in 1..Len(messages) : messages[i].isLoading}

PlaceholderIsLastWhileInFlight ==
    /\ Cardinality(LoadingPositions) <= 1
    /\ isProcessing => LoadingPositions = {Len(messages)}
    /\ ~isProcessing => LoadingPositions = {}

\* The step ends a turn (send or scan).
EndsTurn == isProcessing /\ ~isProcessing'

PlaceholderReplacedInPlace ==
    EndsTurn =>
        /\ Len(messages') = Len(messages)
        /\ SubSeq(messages', 1, Len(messages) - 1)
               = SubSeq(messages, 1, Len(messages) - 1)
        /\ LastMessage.isLoading
        /\ ~LastMessage'.isLoading

\* C11: the transcript holds at most one loading placeholder; while a turn
\* is in flight it is the last message; when none is in flight there is no
\* placeholder; and the step that ends a turn puts exactly one response
\* message at the position of the placeholder, leaving the length and the
\* earlier messages as they were.
C11_PlaceholderReplacedInPlace ==
    [](PlaceholderIsLastWhileInFlight) /\ [][PlaceholderReplacedInPlace]_vars

\* C11 witness: a send turn has finished with an ai response at position 3
\* and a scan is in flight with its placeholder last.
C11_Witness ==
    /\ Len(messages) = 4
    /\ messages[2].sender = "user"
    /\ messages[3].sender = "ai" /\ ~messages[3].isLoading
    /\ IsSome(scanCall)
    /\ messages[4].isLoading /\ messages[4].sender = "system"

SettledMessagesStay ==
    \A i \in 1..Len(messages) :
        ~messages[i].isLoading =>
            /\ Len(messages') >= i
            /\ messages'[i] = messages[i]

OnlyPlaceholderIsReplaced ==
    \A i \in 1..Len(messages) :
        (Len(messages') < i \/ messages'[i] # messages[i]) => messages[i].isLoading

\* C12: a message that is not a loading placeholder stays at its position
\* with its content in every later state; the only message a step removes or
\* replaces is a loading placeholder.
C12_SettledMessagesAreAppendOnly ==
    [][SettledMessagesStay /\ OnlyPlaceholderIsReplaced]_vars

\* C12 witness: two turns have finished (a scan, then a send); the welcome
\* message, the scan's response and the user message are where they were put.
C12_Witness ==
    /\ Len(messages) = 4
    /\ ~isProcessing
    /\ messages[1] = WelcomeMessage
    /\ messages[2].sender = "ai" /\ messages[2].id = ToString(now)
    /\ messages[3].sender = "user"
    /\ ~messages[4].isLoading

\* C13 (as claimed; the code violates it): no two messages of the
\* transcript have the same id, with the clock any non-decreasing integer.
C13_MessageIdsUnique ==
    \A i, j \in 1..Len(messages) : messages[i].id = messages[j].id => i = j

\* Ids announced as deleted, or as created, by a message of the transcript
\* (which keeps every response, C12).
WasDeleted(id) ==
    \E i \in 1..Len(messages) :
        messages[i].text = "OK, I have deleted container #" \o ToString(id) \o "."

WasCreated(id) ==
    \E i \in 1..Len(messages) :
        messages[i].text = "I've created container " \o ToString(id) \o "."

\* C14 (as claimed; the code violates it): the id a CREATE_CONTAINER assigns
\* is greater than the id of every container created earlier, and is not
\* the id of a container that was deleted.
C14_ContainerIdsAreNeverReused ==
    [][ResumesWith("CREATE_CONTAINER") =>
           LET newId == containers'[Len(containers')].id
           IN  /\ ~WasDeleted(newId)
               /\ \A id \in newId..(Len(SeedContainers) + MaxTurns) :
                      ~WasCreated(id)]_vars

\* The resuming turn's action has neither items to add nor items to remove.
NothingToUpdate == ~NonEmpty(SendAction.itemsToAdd) /\ ~NonEmpty(SendAction.itemsToRemove)

ReportedContents(items) ==
    IF NonEmpty(items) THEN Join(Val(items), ", ") ELSE "It's empty"

\* C17: when one turn executes CREATE_CONTAINER(items), announcing id k, and
\* the next turn executes LIST_ITEMS(k), the response reports exactly those
\* items, in order, as the contents of container k, and "It's empty" when
\* items was empty or absent.
C17_CreateThenListRoundTrip ==
    [][(ResumesWith("LIST_ITEMS") /\ IsSome(SendAction.containerNumber)
            /\ Len(messages) >= 4) =>
        \A k \in 1..(Len(SeedContainers) + MaxStoreTurns), items \in CreateLists :
            (/\ messages[Len(messages) - 2].text = CreateResponse(k, items)
             /\ Val(SendAction.containerNumber) = k)
            => LastMessage'.text = "Container " \o ToString(k) \o " contains: "
                                      \o ReportedContents(items) \o "."]_vars

\* C17 witness: container 3 was created with Skis, and the next turn listed
\* container 3.
C17_Witness ==
    /\ Len(messages) = 5
    /\ messages[3].text = "I've created container 3 and added \"Skis\"."
    /\ messages[5].text = "Container 3 contains: Skis."

RECURSIVE ContainerLines(_)
\* One line "Container #<id>: <items joined by ', '>" per container of cs,
\* in the order of cs.
ContainerLines(cs) ==
    IF Len(cs) = 0 THEN ""
    ELSE LET line == "Container #" \o ToString(cs[1].id) \o ": "
                         \o Join(cs[1].items, ", ")
         IN  IF Len(cs) = 1 THEN line
             ELSE line \o "\n" \o ContainerLines(Tail(cs))

\* C18: an executed LIST_ALL_CONTAINERS answers exactly "You don't have any
\* containers yet." on the empty store, and otherwise the heading followed
\* by one line "Container #<id>: <items joined by ', '>" per container of
\* the store, in store order, each container once.
C18_ListAllReportsEveryContainer ==
    [][ResumesWith("LIST_ALL_CONTAINERS") =>
        LastMessage'.text =
            IF Len(containers) = 0
            THEN "You don't have any containers yet."
            ELSE "Here's what's in all your containers:\n\n"
                     \o ContainerLines(containers)]_vars

\* C18 witness: both seed containers were deleted and the empty store was
\* then listed.
C18_Witness ==
    /\ containers = <<>>
    /\ ~isProcessing
    /\ LastMessage.text = "You don't have any containers yet."

\* The resuming send turn ends in the catch block: the interpreter gave null
\* (executeAction throws at action.action), or an UPDATE_ITEMS of an
\* existing container whose itemsToAdd is a non-empty string (executeAction
\* throws at itemsToAdd.join).
ThrowsInSendTurn ==
    /\ ResumesSend
    /\ SendReply.kind = "json"
    /\ \/ SendReply.value = None
       \/ /\ SendAction.action = "UPDATE_ITEMS"
          /\ HasContainerNumber(SendAction)
          /\ Exists(containers, Val(SendAction.containerNumber))
          /\ NonEmpty(SendAction.itemsToAdd)
          /\ ~SendAction.itemsToAddIsArray

\* The turn ends as the catch block leaves it.
EndsWithErrorMessage ==
    /\ Len(messages') = Len(messages)
    /\ LastMessage.isLoading
    /\ LastMessage' = Message(LastMessage'.id, "system",
                              "An error occurred. Please try again.", FALSE)
    /\ pendingScannedItems' = None
    /\ ~isProcessing'

ResumesScan ==
    IsSome(scanCall) /\ IsSome(Val(scanCall).reply) /\ scanCall' = None

\* The reply the resuming handleCameraScan got.
ScanReply == Val(Val(scanCall).reply)

\* The item list a reply to image analysis carries: the items array of a
\* JSON object, and the empty list for every other reply.
ItemListOf(reply) ==
    IF /\ reply.kind = "json"
       /\ IsSome(reply.value)
       /\ IsSome(Val(reply.value).items)
       /\ Val(Val(reply.value).items).isArray
    THEN Val(Val(reply.value).items).elements
    ELSE <<>>

\* C20 (as claimed; the code violates it): analyzeImageOfBinContents gives
\* the reply's item list, and the empty list on any failure or when the
\* reply has no items; a scan whose result is empty leaves
\* pendingScannedItems and the store unchanged and replaces the placeholder
\* by the "couldn't identify any distinct items" message from the ai
\* sender; pendingScannedItems becomes {containerId, items} exactly when
\* the result has at least one item.
C20_ImageAnalysisIsFailSoft ==
    [][ResumesScan =>
        LET items == ItemListOf(ScanReply)
            containerId == Val(scanCall).containerId
        IN  /\ AnalyzeImageOfBinContents(ScanReply) = Array(items)
            /\ containers' = containers
            /\ IF Len(items) = 0
               THEN /\ pendingScannedItems' = pendingScannedItems
                    /\ LastMessage' = Message(LastMessage'.id, "ai",
                           "I couldn't identify any distinct items in container #"
                               \o ToString(containerId) \o ", so I left it as is.",
                           FALSE)
               ELSE /\ IsSome(pendingScannedItems')
                    /\ Val(pendingScannedItems').containerId = containerId
                    /\ Val(pendingScannedItems').items = items]_vars

\* C21: every turn that starts returns to idle: whenever isProcessing is
\* true it is eventually false again, on every path (response, UNKNOWN,
\* exception), given that the outstanding LLM call settles and the handler's
\* continuation runs.
C21_TurnReturnsToIdle == isProcessing ~> ~isProcessing

\* C21 witness: a scan ended in its catch block (the reply's items was a
\* string) and the controller is idle again, the camera closed.
C21_Witness ==
    /\ ~isProcessing
    /\ ~isCameraOpen
    /\ scanCall = None
    /\ LastMessage.text = "An error occurred while scanning the image."

\* C22 (as claimed; the code violates it): whenever an executed
\* CLEAR_CONTAINER(n) answers "Container n has been cleared.", the store
\* afterwards holds container n with an empty item list.
C22_ClearedContainerExistsAndIsEmpty ==
    [][(ResumesWith("CLEAR_CONTAINER") /\ IsSome(SendAction.containerNumber)) =>
        LET n == Val(SendAction.containerNumber)
        IN  LastMessage'.text = "Container " \o ToString(n) \o " has been cleared."
            => /\ n \in IdSet(containers')
               /\ Find(containers', n).items = <<>>]_vars

\* C23: in an UPDATE_ITEMS with items to add and items to remove, every
\* item of itemsToAdd is in the container afterwards, also one that matches
\* a removal term, and every other item of the new list is an item of the
\* old list that matches no removal term: the terms are matched against the
\* old items only.
C23_RemovalBeforeAddition ==
    [][(UpdatesExisting /\ NonEmpty(SendAction.itemsToAdd)
            /\ NonEmpty(SendAction.itemsToRemove)) =>
        LET toAdd == Val(SendAction.itemsToAdd)
            terms == Val(SendAction.itemsToRemove)
        IN  /\ \A k \in 1..Len(toAdd) : Has(NewItems, toAdd[k])
            /\ \A k \in 1..Len(NewItems) :
                   \/ Has(toAdd, NewItems[k])
                   \/ Has(OldItems, NewItems[k]) /\ ~ContainsSomeTerm(NewItems[k], terms)
            /\ \A k \in 1..Len(OldItems) :
                   ~ContainsSomeTerm(OldItems[k], terms) => Has(NewItems, OldItems[k])]_vars

\* C23 witness: container 2 was updated with Tent and Skis to add and the
\* term "tent" to remove; the seed item Tent was removed and Tent was then
\* added, after the items that stayed.
C23_Witness ==
    /\ LastMessage.text =
           "OK, I've added \"Tent, Skis\" to and removed \"tent\" from container 2."
    /\ Exists(containers, 2)
    /\ Find(containers, 2).items = <<"Camping Gear", "Sleeping Bags", "Tent", "Skis">>

\* C24 (as claimed; the code violates it): whenever pendingScannedItems is
\* set, its containerId is the id of a container of the store.
C24_PendingScanNamesStoredContainer ==
    IsSome(pendingScannedItems) =>
        Val(pendingScannedItems).containerId \in IdSet(containers)

\* C25: an executed UPDATE_ITEMS(n, ...) or CLEAR_CONTAINER(n) leaves the
\* number of containers, the id at every position and the items of every
\* container other than n as they were.
C25_UpdateAndClearTouchOnlyTheirContainer ==
    [][((ResumesWith("UPDATE_ITEMS") \/ ResumesWith("CLEAR_CONTAINER"))
            /\ IsSome(SendAction.containerNumber)) =>
        /\ Len(containers') = Len(containers)
        /\ \A i \in 1..Len(containers) :
               /\ containers'[i].id = containers[i].id
               /\ containers[i].id # Val(SendAction.containerNumber)
                      => containers'[i] = containers[i]]_vars

\* C25 witness: container 2 of the seed store was cleared; container 1 is
\* as it was.
C25_Witness ==
    /\ LastMessage.text = "Container 2 has been cleared."
    /\ containers = << SeedContainers[1], [id |-> 2, items |-> <<>>] >>

\* The resuming turn executes a read-only action, or an action that needs a
\* containerNumber and has none.
ResumesReadOnly ==
    \/ ResumesWith("LIST_ITEMS")
    \/ ResumesWith("LIST_ALL_CONTAINERS")
    \/ ResumesWith("UNKNOWN")
    \/ /\ \E name \in {"UPDATE_ITEMS", "CLEAR_CONTAINER", "DELETE_CONTAINER"} :
              ResumesWith(name)
       /\ ~IsSome(SendAction.containerNumber)

\* C26: an executed LIST_ITEMS, LIST_ALL_CONTAINERS or UNKNOWN, and an
\* executed UPDATE_ITEMS, LIST_ITEMS, CLEAR_CONTAINER or DELETE_CONTAINER
\* without containerNumber, leaves the store unchanged.
C26_ReadOnlyActionsLeaveStore ==
    [][ResumesReadOnly => containers' = containers]_vars

\* C26 witness: container 3 was created with Skis twice and then listed;
\* the store is as the create left it.
C26_Witness ==
    /\ LastMessage.text = "Container 3 contains: Skis, Skis."
    /\ Len(containers) = 3
    /\ containers[3] = [id |-> 3, items |-> <<"Skis", "Skis">>]
    /\ SubSeq(containers, 1, 2) = SeedContainers

=============================================================================
